---- MODULE Spec2Model ----
(***************************************************************************)
(* Model of the quiz-please dashboard: the query layer (src/db.py), the    *)
(* session and memoization behaviour of the three pages, the leaderboard   *)
(* pivot of the main page and the head-to-head tally of the team page.     *)
(*                                                                         *)
(* The specifications share the variables:                                *)
(*   SpecQuery   - WHERE clause composition of the filterable queries      *)
(*   SpecSession - page runs, get_connection / run_query, memoization      *)
(*   SpecBoard   - get_full_game_results and the leaderboard pivot         *)
(*   SpecH2H     - the head-to-head loop of the team comparison            *)
(*   SpecRounds  - the natural ordering of round names on both pages       *)
(*   SpecFilters - the sidebar filters and the arguments of the page's     *)
(*                 queries                                                 *)
(*   SpecFinishes - get_top_n_finishes evaluated over a small store        *)
(*   SpecCompare - the round comparison of the team page                   *)
(*   SpecRadar   - the radar normalization of the team comparison          *)
(*   SpecText    - query text and bound parameters of two calls            *)
(*   SpecPick    - the game selectors of the main and the team page        *)
(***************************************************************************)
EXTENDS Integers, Sequences, FiniteSets, TLC

VARIABLES
    qry,            \* the query most recently composed by a filterable query function
    clock,          \* seconds since the process started
    store,          \* the relational store as the driver finds it: "up", "down", "broken"
    secrets,        \* whether st.secrets holds a usable postgresql configuration
    data,           \* what the list queries find in the store: "rows" or "zero" rows
    engine,         \* st.cache_resource entry of get_connection: "unset", "engine", "None"
    cache,          \* st.cache_data entries of the query functions, by (function, argument)
    page,           \* the page script that is running or ran last
    pc,             \* position of the running page script
    run,            \* number of user interactions (script runs) so far
    sel,            \* the filter selection held in the session
    top_teams_df,   \* General Stats: the table held in top_teams_df
    conn_reports,   \* number of "Failed to connect to database" reports of get_connection
    last,           \* what the most recent query call did
    calls,          \* per (function, argument): the most recent call made with it
    board,          \* main page: the full-results table and the pivoted leaderboard
    h2h,            \* team page: the two histories and the head-to-head tally
    rnd,            \* round names as a page found them and as it ordered them
    side,           \* sidebar filters: session keys, widgets, the user's selection, queries issued
    fin,            \* top-N finishes: the stored participations and the table returned
    cmp,            \* team page: the game's full results and the round comparison
    radar,          \* team page: the two average ranks and their normalized values
    sql,            \* two calls of one query function and the text each generated
    pick            \* game selectors: the games listed, the options and the chosen id

sessVars == <<clock, store, secrets, data, engine, cache, page, pc, run, sel, top_teams_df,
              conn_reports, last, calls>>

\* The state of the page fragments that are modelled on their own.
extVars == <<rnd, side, fin, cmp, radar, sql, pick>>

vars == <<qry, sessVars, board, h2h, extVars>>

(***************************************************************************)
(* Generic helpers                                                         *)
(***************************************************************************)
Range(s) == {s[i] : i \in 1..Len(s)}

RECURSIVE SeqSum(_)
SeqSum(s) == IF s = <<>> THEN 0 ELSE Head(s) + SeqSum(Tail(s))

Count(s, S) == Cardinality({i \in 1..Len(s) : s[i] \in S})

(***************************************************************************)
(* Part 1.  WHERE clause composition (src/db.py)                           *)
(***************************************************************************)

\* A filter argument as Python sees it: None, or a list of values.
NoneArg == [none |-> TRUE, vals |-> <<>>]

ListArg(v) == [none |-> FALSE, vals |-> v]

\* Largest number of values in one filter list.
MaxFilterVals == 2

FilterValues == <<"v1", "v2", "v3">>

FilterArgs == {NoneArg} \cup {ListArg(SubSeq(FilterValues, 1, n)) : n \in 0..MaxFilterVals}

\* Python truthiness of `if game_names:` - None and the empty list are falsy.
TruthyNotNone(a) == ~a.none

Truthy(a) == ~a.none /\ Len(a.vals) > 0

\* " AND ".join(filters), as a sequence of tokens.
RECURSIVE JoinAnd(_)
JoinAnd(fs) ==
    IF Len(fs) = 0 THEN <<>>
    ELSE IF Len(fs) = 1 THEN <<fs[1]>>
    ELSE <<fs[1], "AND">> \o JoinAnd(Tail(fs))

\* The three `if <filter>: filters.append(...); params[...] = tuple(...)` blocks.
\* prefix is "" for queries on quizplease.games alone and "g." for the joins.
AppendFilters(base, prefix, game_names, categories, venues) ==
    LET f1 == IF Truthy(game_names)
              THEN Append(base, prefix \o "game_name IN :game_names") ELSE base
        f2 == IF Truthy(categories)
              THEN Append(f1, prefix \o "category IN :categories") ELSE f1
        f3 == IF Truthy(venues)
              THEN Append(f2, prefix \o "venue IN :venues") ELSE f2
    IN f3

FilterParams(game_names, categories, venues) ==
    LET keys == (IF Truthy(game_names) THEN {"game_names"} ELSE {})
                \cup (IF Truthy(categories) THEN {"categories"} ELSE {})
                \cup (IF Truthy(venues) THEN {"venues"} ELSE {})
    IN [k \in keys |-> IF k = "game_names" THEN game_names.vals
                       ELSE IF k = "categories" THEN categories.vals
                       ELSE venues.vals]

\* where_clause = "WHERE " + " AND ".join(filters) if filters else ""
WhereClause(filters) ==
    IF Len(filters) > 0 THEN <<"WHERE">> \o JoinAnd(filters) ELSE <<>>

\* where_clause = "WHERE " + " AND ".join(filters)   (filters never empty)
WhereClauseFixed(filters) == <<"WHERE">> \o JoinAnd(filters)

Built(fn, fixed, filters, where, game_names, categories, venues) ==
    [fn |-> fn, fixed |-> fixed, filters |-> filters, where_clause |-> where,
     params |-> FilterParams(game_names, categories, venues),
     game_names |-> game_names, categories |-> categories, venues |-> venues]

build_summary_stats(gn, cat, ven) ==
    LET filters == AppendFilters(<<>>, "", gn, cat, ven)
    IN Built("get_summary_stats", <<>>, filters, WhereClause(filters), gn, cat, ven)

build_games_list(gn, cat, ven) ==
    LET filters == AppendFilters(<<>>, "", gn, cat, ven)
    IN Built("get_games_list", <<>>, filters, WhereClause(filters), gn, cat, ven)

build_overall_top_teams(gn, cat, ven) ==
    LET filters == AppendFilters(<<>>, "g.", gn, cat, ven)
    IN Built("get_overall_top_teams", <<>>, filters, WhereClause(filters), gn, cat, ven)

build_top_n_finishes(gn, cat, ven) ==
    LET fixed == <<"tgp.rank <= :top_n">>
        filters == AppendFilters(fixed, "g.", gn, cat, ven)
    IN Built("get_top_n_finishes", fixed, filters, WhereClauseFixed(filters), gn, cat, ven)

build_avg_round_scores_by_team(gn, cat, ven) ==
    LET filters == AppendFilters(<<>>, "g.", gn, cat, ven)
    IN Built("get_avg_round_scores_by_team", <<>>, filters, WhereClause(filters), gn, cat, ven)

build_team_game_history(gn, cat, ven) ==
    LET fixed == <<"tgp.team_id = :team_id">>
        filters == AppendFilters(fixed, "g.", gn, cat, ven)
    IN Built("get_team_game_history", fixed, filters, WhereClauseFixed(filters), gn, cat, ven)

NoQuery == Built("none", <<>>, <<>>, <<>>, NoneArg, NoneArg, NoneArg)

(***************************************************************************)
(* Part 2.  Connection, run_query, memoization and the page scripts        *)
(***************************************************************************)

\* ttl of every @st.cache_data query function, in seconds.
TTL == 3600

\* Number of Ticks modelled; one Tick is half the ttl, so that entries are seen
\* younger than the ttl, exactly at it and older than it.
MaxTicks == 3

TickStep == TTL \div 2

MaxTime == MaxTicks * TickStep

\* Number of user interactions (script runs) modelled.
MaxRuns == 2

Pages == {"Main", "General", "Team"}

StoreStates == {"up", "down", "broken"}

\* Filter selections of the session: 0 is nothing selected, 1 a non-empty selection.
Sels == {0, 1}

\* The teams picked by the two selectors of the team page.
SelectedTeam == 1

CompareTeam == 2

HistoryArg(team, s) == team * 10 + s

\* (function, argument) of every memoized call the pages make.
CachedKeys ==
    {<<"get_filter_options", 0>>, <<"get_all_teams", 0>>, <<"get_full_game_results", 1>>}
    \cup {<<f, s>> : f \in {"get_games_list", "get_overall_top_teams",
                            "get_top_n_finishes", "get_avg_round_scores_by_team"},
                     s \in Sels}
    \cup {<<"get_team_game_history", HistoryArg(t, s)>> : t \in {SelectedTeam, CompareTeam},
                                                           s \in Sels}

\* The three quick-stats queries of the main page, passed to run_query directly.
QuickKeys == {<<"run_query", i>> : i \in 1..3}

AllKeys == CachedKeys \cup QuickKeys

NoEntry == [present |-> FALSE, val |-> "empty", at |-> 0]

NoCall == [made |-> FALSE, failed |-> FALSE, tripped |-> FALSE, trip_at |-> 0]

NoRq == [executed |-> FALSE, engine |-> "unset", conn_ran |-> FALSE, conn_reported |-> 0,
         had_engine |-> FALSE, contacted |-> FALSE, failed |-> FALSE,
         reported |-> FALSE, raised |-> FALSE, val |-> "empty"]

NoLast == [key |-> <<"none", 0>>, memo |-> FALSE, hit |-> FALSE, val |-> "empty",
           raised |-> FALSE, trips |-> 0, attempt |-> FALSE, rq |-> NoRq,
           prev |-> NoCall, at |-> 0, shown |-> FALSE, crash |-> "none"]

\* get_connection without st.cache_resource: the body runs on every call.
get_connection_uncached(secrets_ok) ==
    [engine |-> IF secrets_ok THEN "engine" ELSE "None",
     ran |-> TRUE,
     reported |-> IF secrets_ok THEN 0 ELSE 1]

\* get_connection under @st.cache_resource: the body runs on the first call only
\* and its return value, the engine or None, is kept for the life of the process.
\* create_engine does not connect; the body fails when the secrets are unusable.
get_connection(secrets_ok) ==
    IF engine # "unset"
    THEN [engine |-> engine, ran |-> FALSE, reported |-> 0]
    ELSE [engine |-> IF secrets_ok THEN "engine" ELSE "None",
          ran |-> TRUE,
          reported |-> IF secrets_ok THEN 0 ELSE 1]

\* What run_query does with the engine it got: table is what the store answers
\* when the query succeeds.  val "empty" is the column-less pd.DataFrame(), "zero" a
\* table with its columns and no rows, "rows" a table with rows, "exception" no value.
run_query_engine(c, table) ==
    IF c.engine = "engine"
    THEN \* with engine.connect() as conn:   raises when the store is down
         \*     try: pd.read_sql(...)  except: st.error(...); return pd.DataFrame()
         [executed |-> TRUE, engine |-> c.engine, conn_ran |-> c.ran,
          conn_reported |-> c.reported, had_engine |-> TRUE,
          contacted |-> TRUE, failed |-> store # "up",
          reported |-> store = "broken", raised |-> store = "down",
          val |-> IF store = "up" THEN table
                  ELSE IF store = "down" THEN "exception" ELSE "empty"]
    ELSE \* return pd.DataFrame()
         [executed |-> TRUE, engine |-> c.engine, conn_ran |-> c.ran,
          conn_reported |-> c.reported, had_engine |-> FALSE,
          contacted |-> FALSE, failed |-> FALSE,
          reported |-> FALSE, raised |-> FALSE, val |-> "empty"]

run_query(secrets_ok, table) == run_query_engine(get_connection(secrets_ok), table)

\* Body of a query function that returns run_query(query, params).
QueryBody(secrets_ok, table) ==
    LET q == run_query(secrets_ok, table)
    IN [val |-> q.val, raised |-> q.raised, trips |-> IF q.contacted THEN 1 ELSE 0, rq |-> q]

\* Body of get_filter_options: three run_query calls, each indexed by its column;
\* indexing the column-less table raises KeyError.
get_filter_options_body(secrets_ok, table) ==
    LET q == run_query(secrets_ok, table)
    IN IF q.raised \/ q.val = "empty"
       THEN [val |-> "exception", raised |-> TRUE,
             trips |-> IF q.contacted THEN 1 ELSE 0, rq |-> q]
       ELSE [val |-> q.val, raised |-> FALSE, trips |-> 3, rq |-> q]

\* run_query(...).iloc[0][...] of the quick stats: the first row of a table
\* without rows raises IndexError.
quick_stat_body(secrets_ok) ==
    LET q == run_query(secrets_ok, "rows")
    IN [val |-> IF q.val = "empty" THEN "exception" ELSE q.val,
        raised |-> q.raised \/ q.val = "empty",
        trips |-> IF q.contacted THEN 1 ELSE 0, rq |-> q]

\* @st.cache_data(ttl=3600): an entry younger than the ttl answers the call, an
\* older one does not; at exactly the ttl the cache library decides.
HitChoices(k) ==
    IF ~cache[k].present THEN {FALSE}
    ELSE IF clock - cache[k].at < TTL THEN {TRUE}
    ELSE IF clock - cache[k].at = TTL THEN BOOLEAN
    ELSE {FALSE}

\* The result of one call: memo says whether the function is memoized, hit whether
\* a memoized entry answered, body what the function body does when it runs.
Outcome(k, memo, hit, body) ==
    [val |-> IF hit THEN cache[k].val ELSE body.val,
     raised |-> ~hit /\ body.raised,
     trips |-> IF hit THEN 0 ELSE body.trips,
     rq |-> IF hit THEN NoRq ELSE body.rq]

IsFailure(o) == o.raised \/ o.val = "empty"

\* Why a page script stops early at a call: the query raised, or the page read
\* a row or a column the table does not have.
Crash(o, body) ==
    IF ~o.raised THEN "none"
    ELSE IF body.rq.raised THEN "exception"
    ELSE "missing"

\* The state change of one call.  An exception leaves the memo untouched.
\* shown: the page rendered its "no data" message for the table it got.
Effect(k, memo, hit, body, shown, crash) ==
    LET o == Outcome(k, memo, hit, body)
    IN /\ engine' = IF hit THEN engine ELSE body.rq.engine
       /\ conn_reports' = conn_reports + (IF hit THEN 0 ELSE body.rq.conn_reported)
       /\ cache' = IF memo /\ ~hit /\ ~body.raised
                   THEN [cache EXCEPT ![k] = [present |-> TRUE, val |-> body.val, at |-> clock]]
                   ELSE cache
       /\ last' = [key |-> k, memo |-> memo, hit |-> hit, val |-> o.val,
                   raised |-> o.raised, trips |-> o.trips,
                   attempt |-> ~hit /\ (body.rq.contacted \/ body.rq.conn_ran),
                   rq |-> o.rq, prev |-> calls[k], at |-> clock,
                   shown |-> shown, crash |-> crash]
       /\ calls' = [calls EXCEPT ![k] =
                      [made |-> TRUE, failed |-> IsFailure(o),
                       tripped |-> IF o.trips > 0 /\ ~o.raised THEN TRUE ELSE @.tripped,
                       trip_at |-> IF o.trips > 0 /\ ~o.raised THEN clock ELSE @.trip_at]]

SessIdle ==
    /\ clock = 0
    /\ store = "up"
    /\ secrets = TRUE
    /\ data = "rows"
    /\ engine = "unset"
    /\ cache = [k \in CachedKeys |-> NoEntry]
    /\ page = "Main"
    /\ pc = "idle"
    /\ run = 0
    /\ sel = 0
    /\ top_teams_df = "empty"
    /\ conn_reports = 0
    /\ last = NoLast
    /\ calls = [k \in AllKeys |-> NoCall]

\* The process starts with nothing memoized; the environment (secrets, store,
\* data) is whatever it is.
SInit ==
    /\ clock = 0
    /\ store = "up"
    /\ secrets \in BOOLEAN
    /\ data \in {"rows", "zero"}
    /\ engine = "unset"
    /\ cache = [k \in CachedKeys |-> NoEntry]
    /\ page = "Main"
    /\ pc = "idle"
    /\ run = 0
    /\ sel = 0
    /\ top_teams_df = "empty"
    /\ conn_reports = 0
    /\ last = NoLast
    /\ calls = [k \in AllKeys |-> NoCall]

AtRest == pc \in {"idle", "done", "aborted"}

FirstStep(p) == IF p = "Main" THEN "conn" ELSE IF p = "General" THEN "top" ELSE "teams"

Empty(v) == v \in {"empty", "zero"}

\* A user interaction reruns a page script from the top with the widgets' values.
NewInteraction ==
    /\ AtRest
    /\ run < MaxRuns
    /\ \E p \in Pages, s \in Sels :
          /\ page' = p
          /\ sel' = s
    /\ pc' = "filters"
    /\ run' = run + 1
    /\ top_teams_df' = "empty"
    /\ UNCHANGED <<qry, board, h2h, extVars, clock, store, secrets, data, engine, cache, conn_reports, last, calls>>

Tick ==
    /\ AtRest
    /\ clock + TickStep <= MaxTime
    /\ clock' = clock + TickStep
    /\ UNCHANGED <<qry, board, h2h, extVars, store, secrets, data, engine, cache, page, pc, run, sel, top_teams_df,
                   conn_reports, last, calls>>

StoreChange ==
    /\ AtRest
    /\ \E st \in StoreStates \ {store} : store' = st
    /\ UNCHANGED <<qry, board, h2h, extVars, clock, secrets, data, engine, cache, page, pc, run, sel, top_teams_df,
                   conn_reports, last, calls>>

\* render_sidebar_filters: every page calls get_filter_options() first.
RenderSidebarFilters ==
    /\ pc = "filters"
    /\ LET k == <<"get_filter_options", 0>>
       IN \E hit \in HitChoices(k) :
             LET b == get_filter_options_body(secrets, data)
                 o == Outcome(k, TRUE, hit, b)
             IN /\ Effect(k, TRUE, hit, b, ~o.raised /\ Empty(o.val), Crash(o, b))
                /\ pc' = IF o.raised THEN "aborted" ELSE FirstStep(page)
    /\ UNCHANGED <<qry, board, h2h, extVars, clock, store, secrets, data, page, run, sel, top_teams_df>>

\* Main page: engine = get_connection(); if engine: ... else: st.error(...)
MainCheckConnection ==
    /\ page = "Main" /\ pc = "conn"
    /\ LET c == get_connection(secrets)
       IN /\ engine' = c.engine
          /\ conn_reports' = conn_reports + c.reported
          /\ pc' = IF c.engine = "engine" THEN "quick1" ELSE "done"
    /\ UNCHANGED <<qry, board, h2h, extVars, clock, store, secrets, data, cache, page, run, sel, top_teams_df,
                   last, calls>>

QuickIndex == IF pc = "quick1" THEN 1 ELSE IF pc = "quick2" THEN 2 ELSE 3

\* Main page quick stats: run_query(<text>).iloc[0][<column>], three times.
MainQuickStat ==
    /\ page = "Main" /\ pc \in {"quick1", "quick2", "quick3"}
    /\ LET k == <<"run_query", QuickIndex>>
           b == quick_stat_body(secrets)
       IN /\ Effect(k, FALSE, FALSE, b, FALSE, Crash(b, b))
          /\ pc' = IF b.raised THEN "aborted"
                   ELSE IF pc = "quick1" THEN "quick2"
                   ELSE IF pc = "quick2" THEN "quick3" ELSE "games"
    /\ UNCHANGED <<qry, board, h2h, extVars, clock, store, secrets, data, page, run, sel, top_teams_df>>

\* Main page: games_df = get_games_list(...); empty -> st.info("No games found.")
MainGamesList ==
    /\ page = "Main" /\ pc = "games"
    /\ LET k == <<"get_games_list", sel>>
       IN \E hit \in HitChoices(k) :
             LET b == QueryBody(secrets, data)
                 o == Outcome(k, TRUE, hit, b)
             IN /\ Effect(k, TRUE, hit, b, ~o.raised /\ Empty(o.val), Crash(o, b))
                /\ pc' = IF o.raised THEN "aborted"
                         ELSE IF Empty(o.val) THEN "done" ELSE "results"
    /\ UNCHANGED <<qry, board, h2h, extVars, clock, store, secrets, data, page, run, sel, top_teams_df>>

\* Main page: results_df = get_full_game_results(id); empty -> st.warning(...)
MainGameResults ==
    /\ page = "Main" /\ pc = "results"
    /\ LET k == <<"get_full_game_results", 1>>
       IN \E hit \in HitChoices(k) :
             LET b == QueryBody(secrets, data)
                 o == Outcome(k, TRUE, hit, b)
             IN /\ Effect(k, TRUE, hit, b, ~o.raised /\ Empty(o.val), Crash(o, b))
                /\ pc' = IF o.raised THEN "aborted" ELSE "done"
    /\ UNCHANGED <<qry, board, h2h, extVars, clock, store, secrets, data, page, run, sel, top_teams_df>>

\* General Stats: top_teams_df = get_overall_top_teams(...); empty -> st.warning(...)
GeneralTopTeams ==
    /\ page = "General" /\ pc = "top"
    /\ LET k == <<"get_overall_top_teams", sel>>
       IN \E hit \in HitChoices(k) :
             LET b == QueryBody(secrets, data)
                 o == Outcome(k, TRUE, hit, b)
             IN /\ Effect(k, TRUE, hit, b, ~o.raised /\ Empty(o.val), Crash(o, b))
                /\ pc' = IF o.raised THEN "aborted" ELSE "finishes"
                /\ top_teams_df' = IF o.raised THEN top_teams_df ELSE o.val
    /\ UNCHANGED <<qry, board, h2h, extVars, clock, store, secrets, data, page, run, sel>>

\* General Stats: finishes_df = get_top_n_finishes(...); empty -> st.info(...)
GeneralTopFinishes ==
    /\ page = "General" /\ pc = "finishes"
    /\ LET k == <<"get_top_n_finishes", sel>>
       IN \E hit \in HitChoices(k) :
             LET b == QueryBody(secrets, data)
                 o == Outcome(k, TRUE, hit, b)
             IN /\ Effect(k, TRUE, hit, b, ~o.raised /\ Empty(o.val), Crash(o, b))
                /\ pc' = IF o.raised THEN "aborted" ELSE "avg"
    /\ UNCHANGED <<qry, board, h2h, extVars, clock, store, secrets, data, page, run, sel, top_teams_df>>

\* General Stats: avg_scores_df = get_avg_round_scores_by_team(...); when it has
\* rows, top_teams_df.head(limit)['name'] is read (KeyError on the column-less
\* table); when it is empty nothing is rendered.
GeneralAvgScores ==
    /\ page = "General" /\ pc = "avg"
    /\ LET k == <<"get_avg_round_scores_by_team", sel>>
       IN \E hit \in HitChoices(k) :
             LET b == QueryBody(secrets, data)
                 o == Outcome(k, TRUE, hit, b)
                 keyError == ~o.raised /\ o.val = "rows" /\ top_teams_df = "empty"
             IN /\ Effect(k, TRUE, hit, b, FALSE, IF keyError THEN "missing" ELSE Crash(o, b))
                /\ pc' = IF o.raised \/ keyError THEN "aborted" ELSE "done"
    /\ UNCHANGED <<qry, board, h2h, extVars, clock, store, secrets, data, page, run, sel, top_teams_df>>

\* Team Analysis: teams_df = get_all_teams(); empty -> st.error(...); st.stop()
TeamAllTeams ==
    /\ page = "Team" /\ pc = "teams"
    /\ LET k == <<"get_all_teams", 0>>
       IN \E hit \in HitChoices(k) :
             LET b == QueryBody(secrets, data)
                 o == Outcome(k, TRUE, hit, b)
             IN /\ Effect(k, TRUE, hit, b, ~o.raised /\ Empty(o.val), Crash(o, b))
                /\ pc' = IF o.raised THEN "aborted"
                         ELSE IF Empty(o.val) THEN "done" ELSE "history"
    /\ UNCHANGED <<qry, board, h2h, extVars, clock, store, secrets, data, page, run, sel, top_teams_df>>

\* Team Analysis: dynamics_df = get_team_game_history(...); empty -> st.info(...)
TeamHistory ==
    /\ page = "Team" /\ pc = "history"
    /\ LET k == <<"get_team_game_history", HistoryArg(SelectedTeam, sel)>>
       IN \E hit \in HitChoices(k) :
             LET b == QueryBody(secrets, data)
                 o == Outcome(k, TRUE, hit, b)
             IN /\ Effect(k, TRUE, hit, b, ~o.raised /\ Empty(o.val), Crash(o, b))
                /\ pc' = IF o.raised THEN "aborted"
                         ELSE IF Empty(o.val) THEN "done" ELSE "team_results"
    /\ UNCHANGED <<qry, board, h2h, extVars, clock, store, secrets, data, page, run, sel, top_teams_df>>

\* Team Analysis: full_game_results = get_full_game_results(id); empty -> st.warning(...)
TeamGameResults ==
    /\ page = "Team" /\ pc = "team_results"
    /\ LET k == <<"get_full_game_results", 1>>
       IN \E hit \in HitChoices(k) :
             LET b == QueryBody(secrets, data)
                 o == Outcome(k, TRUE, hit, b)
             IN /\ Effect(k, TRUE, hit, b, ~o.raised /\ Empty(o.val), Crash(o, b))
                /\ pc' = IF o.raised THEN "aborted" ELSE "compare"
    /\ UNCHANGED <<qry, board, h2h, extVars, clock, store, secrets, data, page, run, sel, top_teams_df>>

\* Team Analysis: compare_dynamics_df = get_team_game_history(...); empty -> st.warning(...)
TeamCompareHistory ==
    /\ page = "Team" /\ pc = "compare"
    /\ LET k == <<"get_team_game_history", HistoryArg(CompareTeam, sel)>>
       IN \E hit \in HitChoices(k) :
             LET b == QueryBody(secrets, data)
                 o == Outcome(k, TRUE, hit, b)
             IN /\ Effect(k, TRUE, hit, b, ~o.raised /\ Empty(o.val), Crash(o, b))
                /\ pc' = IF o.raised THEN "aborted" ELSE "done"
    /\ UNCHANGED <<qry, board, h2h, extVars, clock, store, secrets, data, page, run, sel, top_teams_df>>

(***************************************************************************)
(* Part 3.  get_full_game_results and the leaderboard pivot (main page)    *)
(***************************************************************************)

\* Largest number of teams in the game, and the worst rank.
MaxTeams == 3

MaxRank == 2

\* Team names and round names, each listed in the collation order of the store
\* and of the dataframe library.
TeamNames == <<"A", "B", "C", "D", "E">>

RoundNames == <<"round 1", "round 2">>

NullRound == "<null>"

NullScore == -1

Ord(seq, x) == CHOOSE i \in 1..Len(seq) : seq[i] = x

\* Position of a round name in ORDER BY ... rs.round_name: NULL comes last.
RoundOrd(r) == IF r = NullRound THEN Len(RoundNames) + 1 ELSE Ord(RoundNames, r)

\* The stored round score of a team (fixed by team and round in this part).
ScoreOf(name, r) == Ord(TeamNames, name) + 2 * Ord(RoundNames, r)

TotalOf(rank) == 10 * (MaxRank + 1 - rank)

\* One participation of the game: the team, its rank and the rounds it has rows for.
Participations(n) ==
    [1..n -> [rank : 1..MaxRank, rounds : SUBSET Range(RoundNames)]]

\* The rows of the join: one per (team, round), and one with NULL round fields for
\* a team without round rows (LEFT JOIN).
JoinRows(n, parts) ==
    UNION {IF parts[i].rounds = {}
           THEN {[name |-> TeamNames[i], rank |-> parts[i].rank,
                  total_score |-> TotalOf(parts[i].rank),
                  round_name |-> NullRound, score |-> NullScore]}
           ELSE {[name |-> TeamNames[i], rank |-> parts[i].rank,
                  total_score |-> TotalOf(parts[i].rank),
                  round_name |-> r, score |-> ScoreOf(TeamNames[i], r)]
                 : r \in parts[i].rounds}
           : i \in 1..n}

\* ORDER BY tgp.rank ASC, rs.round_name
QueryLess(a, b) ==
    \/ a.rank < b.rank
    \/ a.rank = b.rank /\ RoundOrd(a.round_name) < RoundOrd(b.round_name)

\* sort_values('rank')
RankLess(a, b) == a.rank < b.rank

\* sort_values('rank', ascending=False)
RankGreater(a, b) == a.rank > b.rank

\* Order of the pivot's index (rank, name, total_score).
IndexLess(a, b) ==
    \/ a.rank < b.rank
    \/ a.rank = b.rank /\ Ord(TeamNames, a.name) < Ord(TeamNames, b.name)
    \/ a.rank = b.rank /\ a.name = b.name /\ a.total_score < b.total_score

\* The orders in use, by name.
Less(by, a, b) ==
    IF by = "query" THEN QueryLess(a, b)
    ELSE IF by = "index" THEN IndexLess(a, b)
    ELSE IF by = "rank" THEN RankLess(a, b)
    ELSE RankGreater(a, b)

\* Every sequence of the elements of S that respects the order: rows that the
\* order does not separate come in any order.
RECURSIVE Orders(_, _)
Orders(S, by) ==
    IF S = {} THEN {<<>>}
    ELSE UNION {{<<m>> \o t : t \in Orders(S \ {m}, by)}
                : m \in {x \in S : \A y \in S : ~Less(by, y, x)}}

\* The tables get_full_game_results can return for the stored game.
FullGameResults(n, parts) == Orders(JoinRows(n, parts), "query")

\* pivot_table(index=['rank', 'name', 'total_score'], columns='round_name',
\* values='score'): rows with a null key or column value are dropped, one row is
\* made per remaining (rank, name, total_score), sorted by that key; one column per
\* remaining round name, sorted.
PivotKept(results) == {results[i] : i \in {j \in 1..Len(results) :
                                         results[j].round_name # NullRound}}

PivotRounds(results) ==
    LET present == {x.round_name : x \in PivotKept(results)}
    IN SelectSeq(RoundNames, LAMBDA r : r \in present)

PivotRow(results, key) ==
    [rank |-> key.rank, name |-> key.name, total_score |-> key.total_score,
     cells |-> [r \in Range(PivotRounds(results)) |->
                  LET hit == {x \in PivotKept(results) :
                                /\ x.rank = key.rank /\ x.name = key.name
                                /\ x.total_score = key.total_score /\ x.round_name = r}
                  IN IF hit = {} THEN NullScore ELSE (CHOOSE x \in hit : TRUE).score]]

PivotTable(results) ==
    LET keys == {[rank |-> x.rank, name |-> x.name, total_score |-> x.total_score]
                 : x \in PivotKept(results)}
        rows == {PivotRow(results, k) : k \in keys}
    IN CHOOSE s \in Orders(rows, "index") : TRUE

\* pivot_df.sort_values('rank', inplace=True): the default sort is not stable, rows
\* of equal rank come out in any order.
SortValuesDescending(rows) == Orders(Range(rows), "rank_desc")

SortValues(rows) == Orders(Range(rows), "rank")

\* str.title() of the round names in use.
Title(c) ==
    IF c = "round 1" THEN "Round 1"
    ELSE IF c = "round 2" THEN "Round 2"
    ELSE c

\* rename(columns=...) and the title-casing of the round columns.
PivotColumns(results) ==
    <<"Rank", "Team", "Total Points">>
    \o [i \in 1..Len(PivotRounds(results)) |-> Title(PivotRounds(results)[i])]

NoBoard == [stage |-> "idle", n |-> 0, parts |-> <<>>, results |-> <<>>,
            rows |-> <<>>, columns |-> <<>>]

BoardIdle == board = NoBoard

\* The store holds some game: its teams, their ranks and their round rows.
BInit ==
    \E n \in 0..MaxTeams :
        \E parts \in Participations(n) :
            board = [stage |-> "stored", n |-> n, parts |-> parts, results |-> <<>>,
                     rows |-> <<>>, columns |-> <<>>]

\* results_df = get_full_game_results(selected_game_id)
FetchGameResults ==
    /\ board.stage = "stored"
    /\ \E res \in FullGameResults(board.n, board.parts) :
          board' = [board EXCEPT !.stage = "fetched", !.results = res]
    /\ UNCHANGED <<qry, sessVars, h2h, extVars>>

\* if not results_df.empty: pivot, sort by rank, rename the columns; then
\* winner_name = pivot_df.iloc[0]['Team'], which has no row to read when the pivot
\* kept none.
PivotLeaderboard ==
    /\ board.stage = "fetched"
    /\ board.results # <<>>
    /\ \E rows \in SortValues(PivotTable(board.results)) :
          board' = [board EXCEPT !.stage = IF rows = <<>> THEN "aborted" ELSE "pivoted",
                                 !.rows = rows,
                                 !.columns = PivotColumns(board.results)]
    /\ UNCHANGED <<qry, sessVars, h2h, extVars>>

\* else: st.warning("No results found for this game.")
NoResultsWarning ==
    /\ board.stage = "fetched"
    /\ board.results = <<>>
    /\ board' = [board EXCEPT !.stage = "warning"]
    /\ UNCHANGED <<qry, sessVars, h2h, extVars>>

BNext ==
    \/ FetchGameResults
    \/ PivotLeaderboard
    \/ NoResultsWarning

\* Position of a team's first row in the full-results table.
FirstRowOf(results, name) ==
    CHOOSE i \in 1..Len(results) :
        /\ results[i].name = name
        /\ \A j \in 1..(i - 1) : results[j].name # name

DistinctRounds(results) ==
    {results[i].round_name : i \in 1..Len(results)} \ {NullRound}

Pivoted == board.stage = "pivoted"

\* C7: the pivoted leaderboard of a game with N teams and R distinct round names
\* has exactly N rows and R + 3 columns, also when a team has no round rows and
\* when ranks are tied.
C7_PivotShape ==
    Pivoted =>
        /\ Len(board.rows) = board.n
        /\ Len(board.columns) = Cardinality(DistinctRounds(board.results)) + 3

\* The shape that does hold: one row per team that has at least one round row.
C7_RowsAreTeamsWithRounds ==
    Pivoted =>
        /\ {board.rows[i].name : i \in 1..Len(board.rows)}
              = {TeamNames[i] : i \in {j \in 1..board.n : board.parts[j].rounds # {}}}
        /\ Len(board.columns) = Cardinality(DistinctRounds(board.results)) + 3

RanksAscend(rows) ==
    \A i \in 1..Len(rows), j \in 1..Len(rows) : i < j => rows[i].rank <= rows[j].rank

TiesKeepSourceOrder(rows, results) ==
    \A i \in 1..Len(rows), j \in 1..Len(rows) :
        (i < j /\ rows[i].rank = rows[j].rank)
            => FirstRowOf(results, rows[i].name) < FirstRowOf(results, rows[j].name)

\* C8 as stated: the leaderboard rows are in ascending rank order and teams of
\* equal rank keep the order of their first rows in the full-results table.
C8_StableRankOrder ==
    Pivoted => (RanksAscend(board.rows) /\ TiesKeepSourceOrder(board.rows, board.results))

\* C8 amended: the leaderboard rows are in ascending rank order (teams of equal
\* rank come in no particular order).
C8_AscendingRankOrder == Pivoted => RanksAscend(board.rows)

\* C8 witness: a leaderboard with two ranks and a tie whose order is not the
\* order of the full-results table.
C8_Witness ==
    /\ board.stage = "pivoted"
    /\ Len(board.rows) >= 3
    /\ \E i \in 1..Len(board.rows) : board.rows[i].rank # board.rows[1].rank
    /\ ~TiesKeepSourceOrder(board.rows, board.results)

(***************************************************************************)
(* Part 4.  Head-to-head tally (team page)                                 *)
(***************************************************************************)

\* Largest number of rows in one team's game history, and of games.
MaxHistory == 2

MaxGames == 2

HistoryRows == [game_id : 1..MaxGames, rank : 1..MaxRank]

RECURSIVE SeqsUpTo(_, _)
SeqsUpTo(S, n) ==
    IF n = 0 THEN {<<>>}
    ELSE SeqsUpTo(S, n - 1)
         \cup {Append(t, x) : t \in {u \in SeqsUpTo(S, n - 1) : Len(u) = n - 1}, x \in S}

\* The non-empty histories get_team_game_history can return.
Histories == SeqsUpTo(HistoryRows, MaxHistory) \ {<<>>}

GameIdsOf(df) == {df[i].game_id : i \in 1..Len(df)}

\* df[df['game_id'] == gid].iloc[0]
FirstRowFor(df, gid) ==
    df[CHOOSE i \in 1..Len(df) :
          /\ df[i].game_id = gid
          /\ \A j \in 1..(i - 1) : df[j].game_id # gid]

\* Variants of the rank comparison: ties credited to the selected team, and ties
\* credited to nobody.
WinnerTiesToSelected(t1_rank, t2_rank) == IF t1_rank <= t2_rank THEN "team1" ELSE "team2"

WinnerStrict(t1_rank, t2_rank) ==
    IF t1_rank < t2_rank THEN "team1"
    ELSE IF t2_rank < t1_rank THEN "team2" ELSE "nobody"

\* if t1_rank < t2_rank: winner = selected_team_name ... else: winner = compare_team_name
Winner(t1_rank, t2_rank) == IF t1_rank < t2_rank THEN "team1" ELSE "team2"

\* The loop over common_game_ids: the row of h2h_data for each common game.
H2HData(dynamics_df, compare_dynamics_df) ==
    LET common_game_ids == GameIdsOf(dynamics_df) \cap GameIdsOf(compare_dynamics_df)
    IN [gid \in common_game_ids |->
          LET t1_rank == FirstRowFor(dynamics_df, gid).rank
              t2_rank == FirstRowFor(compare_dynamics_df, gid).rank
          IN [t1_rank |-> t1_rank, t2_rank |-> t2_rank,
              winner |-> Winner(t1_rank, t2_rank)]]

Wins(tbl, team) == Cardinality({gid \in DOMAIN tbl : tbl[gid].winner = team})

NoH2H == [stage |-> "idle", dynamics_df |-> <<>>, compare_dynamics_df |-> <<>>,
          h2h_data |-> <<>>, team1_wins |-> 0, team2_wins |-> 0]

H2HIdle == h2h = NoH2H

\* Both teams have a non-empty history (the branch the comparison runs in).
HInit ==
    \E d \in Histories, c \in Histories :
        h2h = [stage |-> "histories", dynamics_df |-> d, compare_dynamics_df |-> c,
               h2h_data |-> <<>>, team1_wins |-> 0, team2_wins |-> 0]

\* if common_game_ids: build the table and the two win counts
HeadToHead ==
    /\ h2h.stage = "histories"
    /\ GameIdsOf(h2h.dynamics_df) \cap GameIdsOf(h2h.compare_dynamics_df) # {}
    /\ LET tbl == H2HData(h2h.dynamics_df, h2h.compare_dynamics_df)
       IN h2h' = [h2h EXCEPT !.stage = "tallied", !.h2h_data = tbl,
                             !.team1_wins = Wins(tbl, "team1"),
                             !.team2_wins = Wins(tbl, "team2")]
    /\ UNCHANGED <<qry, sessVars, board, extVars>>

\* else: st.info("These teams have not competed in the same games.")
NoCommonGames ==
    /\ h2h.stage = "histories"
    /\ GameIdsOf(h2h.dynamics_df) \cap GameIdsOf(h2h.compare_dynamics_df) = {}
    /\ h2h' = [h2h EXCEPT !.stage = "no_common"]
    /\ UNCHANGED <<qry, sessVars, board, extVars>>

HNext ==
    \/ HeadToHead
    \/ NoCommonGames

Common == GameIdsOf(h2h.dynamics_df) \cap GameIdsOf(h2h.compare_dynamics_df)

T1Rank(gid) == FirstRowFor(h2h.dynamics_df, gid).rank

T2Rank(gid) == FirstRowFor(h2h.compare_dynamics_df, gid).rank

\* C9 as stated: in every common game a team is credited with the win exactly when
\* its rank is strictly lower than the other's; with equal ranks nobody is credited.
C9_StrictlyLowerRankWins ==
    h2h.stage = "tallied" =>
        \A gid \in Common :
            /\ gid \in DOMAIN h2h.h2h_data
            /\ (h2h.h2h_data[gid].winner = "team1") <=> (T1Rank(gid) < T2Rank(gid))
            /\ (h2h.h2h_data[gid].winner = "team2") <=> (T2Rank(gid) < T1Rank(gid))

\* C9 amended: in every common game the selected team is credited exactly when its
\* rank is strictly lower than the compared team's; in every other case, equal
\* ranks included, the compared team is credited.
C9_SelectedWinsOnlyStrictly ==
    h2h.stage = "tallied" =>
        /\ DOMAIN h2h.h2h_data = Common
        /\ \A gid \in Common :
              /\ (h2h.h2h_data[gid].winner = "team1") <=> (T1Rank(gid) < T2Rank(gid))
              /\ (h2h.h2h_data[gid].winner = "team2") <=> (T1Rank(gid) >= T2Rank(gid))

\* C9 witness: a tally with a game of equal ranks and a game won by the selected team.
C9_Witness ==
    /\ h2h.stage = "tallied"
    /\ \E gid \in Common : T1Rank(gid) = T2Rank(gid)
    /\ \E gid \in Common : T1Rank(gid) < T2Rank(gid)

\* C10: the two win counts sum to the number of distinct game ids present in both
\* histories, whatever the ranks.
C10_WinsSumToCommonGames ==
    h2h.stage = "tallied" => h2h.team1_wins + h2h.team2_wins = Cardinality(Common)

\* C10 witness: a tally over two common games, one of them with equal ranks, from
\* a history that lists a game twice.
C10_Witness ==
    /\ h2h.stage = "tallied"
    /\ Cardinality(Common) = 2
    /\ \E gid \in Common : T1Rank(gid) = T2Rank(gid)
    /\ h2h.team1_wins + h2h.team2_wins = 2

SNext ==
    \/ NewInteraction
    \/ Tick
    \/ StoreChange
    \/ RenderSidebarFilters
    \/ MainCheckConnection
    \/ MainQuickStat
    \/ MainGamesList
    \/ MainGameResults
    \/ GeneralTopTeams
    \/ GeneralTopFinishes
    \/ GeneralAvgScores
    \/ TeamAllTeams
    \/ TeamHistory
    \/ TeamGameResults
    \/ TeamCompareHistory

\* Idle values of the fragments, held while another specification runs.
NoRounds == [stage |-> "idle", site |-> "none", given |-> <<>>, rounds |-> <<>>,
             raised |-> FALSE]

RoundsIdle == rnd = NoRounds

NoFinishes == [stage |-> "idle", parts |-> <<>>, games |-> <<>>, top_n |-> 0,
               game_names |-> NoneArg, categories |-> NoneArg, venues |-> NoneArg,
               finishes_df |-> <<>>]

NoCompare == [stage |-> "idle", n |-> 0, parts |-> <<>>, selected_team_name |-> "",
              full_game_results |-> <<>>, plot_data |-> <<>>]

NoRadar == [stage |-> "idle", games1 |-> 0, sum1 |-> 0, games2 |-> 0, sum2 |-> 0,
            avg_rank1 |-> 0, avg_rank2 |-> 0, team1_radar |-> 0, team2_radar |-> 0]

NoSql == [stage |-> "idle", first |-> <<>>, second |-> <<>>]

NoPick == [stage |-> "idle", site |-> "none", games |-> <<>>, options |-> <<>>,
           game_options |-> <<>>, selected_game_label |-> <<>>, selected_game_id |-> 0,
           shown |-> FALSE]

NoSide == [stage |-> "idle"]

\* The variables of parts 1 to 4.
coreVars == <<qry, sessVars, board, h2h>>

ExtIdle ==
    /\ RoundsIdle
    /\ side = NoSide
    /\ fin = NoFinishes
    /\ cmp = NoCompare
    /\ radar = NoRadar
    /\ sql = NoSql
    /\ pick = NoPick

\* Parts 1 to 4 at rest, while a fragment is examined on its own.
CoreIdle == qry = NoQuery /\ SessIdle /\ BoardIdle /\ H2HIdle

SessionInit == SInit /\ qry = NoQuery /\ BoardIdle /\ H2HIdle /\ ExtIdle

BoardInit == BInit /\ qry = NoQuery /\ SessIdle /\ H2HIdle /\ ExtIdle

SpecBoard == BoardInit /\ [][BNext]_vars

H2HInit == HInit /\ qry = NoQuery /\ SessIdle /\ BoardIdle /\ ExtIdle

SpecH2H == H2HInit /\ [][HNext]_vars

SpecSession == SessionInit /\ [][SNext]_vars

(***************************************************************************)
(* Claims about the session                                                *)
(***************************************************************************)

Called == last.key # <<"none", 0>>

\* C2: for every query, a call whose arguments equal those of an earlier call that
\* went to the store less than the TTL ago issues no store round-trip and returns
\* the memoized result; a call (made with a connection handle) whose arguments were
\* not seen before, or whose memoized entry is older than the TTL, does issue one.
C2_MemoizedWithinTTL ==
    Called =>
        /\ (last.prev.tripped /\ last.at - last.prev.trip_at < TTL)
              => (last.trips = 0 /\ last.hit)
        /\ (engine = "engine" /\
            (~last.prev.made \/ (last.prev.tripped /\ last.at - last.prev.trip_at > TTL)))
              => last.trips > 0

\* The same statement for the memoized query functions only (it holds for them).
C2_MemoizedFunctionsOnly == last.memo => C2_MemoizedWithinTTL

\* C3: a run_query call made while a connection handle exists catches every
\* failure of the store, reports it and returns the empty table; nothing propagates.
C3_RunQueryCatchesFailures ==
    (last.rq.executed /\ last.rq.had_engine /\ last.rq.failed)
        => (~last.rq.raised /\ last.rq.reported /\ last.rq.val = "empty")

C5_FreshAttemptNextInteraction ==
    (Called /\ last.prev.made /\ last.prev.failed) => last.attempt

\* C6: no page run stops on a missing row or column, and a page that gets an empty
\* table renders its "no data" message.
C6_EmptyTableRendered ==
    /\ last.crash # "missing"
    /\ (Called /\ ~last.raised /\ Empty(last.val)) => last.shown

QInit == qry = NoQuery /\ SessIdle /\ BoardIdle /\ H2HIdle /\ ExtIdle

get_summary_stats ==
    \E gn \in FilterArgs, cat \in FilterArgs, ven \in FilterArgs :
        /\ qry' = build_summary_stats(gn, cat, ven)
        /\ UNCHANGED <<sessVars, board, h2h, extVars>>

get_games_list ==
    \E gn \in FilterArgs, cat \in FilterArgs, ven \in FilterArgs :
        /\ qry' = build_games_list(gn, cat, ven)
        /\ UNCHANGED <<sessVars, board, h2h, extVars>>

get_overall_top_teams ==
    \E gn \in FilterArgs, cat \in FilterArgs, ven \in FilterArgs :
        /\ qry' = build_overall_top_teams(gn, cat, ven)
        /\ UNCHANGED <<sessVars, board, h2h, extVars>>

get_top_n_finishes ==
    \E gn \in FilterArgs, cat \in FilterArgs, ven \in FilterArgs :
        /\ qry' = build_top_n_finishes(gn, cat, ven)
        /\ UNCHANGED <<sessVars, board, h2h, extVars>>

get_avg_round_scores_by_team ==
    \E gn \in FilterArgs, cat \in FilterArgs, ven \in FilterArgs :
        /\ qry' = build_avg_round_scores_by_team(gn, cat, ven)
        /\ UNCHANGED <<sessVars, board, h2h, extVars>>

get_team_game_history ==
    \E gn \in FilterArgs, cat \in FilterArgs, ven \in FilterArgs :
        /\ qry' = build_team_game_history(gn, cat, ven)
        /\ UNCHANGED <<sessVars, board, h2h, extVars>>

QNext ==
    \/ get_summary_stats
    \/ get_games_list
    \/ get_overall_top_teams
    \/ get_top_n_finishes
    \/ get_avg_round_scores_by_team
    \/ get_team_game_history

SpecQuery == QInit /\ [][QNext]_vars

\* The IN predicates a filter can contribute, by filter name.
InPreds(f) ==
    IF f = "game_names" THEN {"game_name IN :game_names", "g.game_name IN :game_names"}
    ELSE IF f = "categories" THEN {"category IN :categories", "g.category IN :categories"}
    ELSE {"venue IN :venues", "g.venue IN :venues"}

FilterNames == {"game_names", "categories", "venues"}

ArgOf(q, f) ==
    IF f = "game_names" THEN q.game_names
    ELSE IF f = "categories" THEN q.categories ELSE q.venues

NonEmptyArg(a) == a.none = FALSE /\ a.vals # <<>>

\* The predicates of a WHERE clause: the tokens at even positions (WHERE p1 AND p2 ...).
ClausePreds(w) == [i \in 1..(Len(w) \div 2) |-> w[2 * i]]

WellFormedClause(w) ==
    \/ w = <<>>
    \/ /\ Len(w) % 2 = 0
       /\ w[1] = "WHERE"
       /\ \A i \in 1..Len(w) : (i % 2 = 1 /\ i > 1) => w[i] = "AND"
       /\ \A i \in 1..Len(w) : i % 2 = 0 => w[i] \notin {"AND", "WHERE"}

\* C1: in every generated WHERE clause each non-empty filter contributes exactly
\* one IN predicate and an empty or absent filter none; the predicates are the
\* function's fixed predicate (if any) followed by these, conjoined with AND;
\* with all three filters empty only the fixed predicate (or nothing) remains.
C1_PredicatesMatchFilters ==
    qry.fn # "none" =>
        LET w == qry.where_clause
            preds == ClausePreds(w)
            nIn == SeqSum([i \in 1..3 |->
                     IF NonEmptyArg(ArgOf(qry, <<"game_names", "categories", "venues">>[i]))
                     THEN 1 ELSE 0])
        IN /\ WellFormedClause(w)
           /\ \A f \in FilterNames :
                 /\ Count(preds, InPreds(f)) = (IF NonEmptyArg(ArgOf(qry, f)) THEN 1 ELSE 0)
                 /\ (f \in DOMAIN qry.params) <=> NonEmptyArg(ArgOf(qry, f))
           /\ Len(preds) = Len(qry.fixed) + nIn
           /\ SubSeq(preds, 1, Len(qry.fixed)) = qry.fixed
           /\ (nIn = 0 /\ qry.fixed = <<>>) => w = <<>>

\* C1 witness: a query with a fixed predicate, one empty list, one absent and
\* one non-empty filter has been generated.
C1_Witness ==
    /\ qry.fn = "get_top_n_finishes"
    /\ qry.game_names = ListArg(<<>>)
    /\ qry.categories = NoneArg
    /\ NonEmptyArg(qry.venues)
    /\ qry.where_clause = <<"WHERE", "tgp.rank <= :top_n", "AND", "g.venue IN :venues">>

(***************************************************************************)
(* Part 5.  Natural ordering of round names                                *)
(*          (pages/1_General_Stats.py 104-114, pages/2_Team_Analysis.py    *)
(*          109-114)                                                       *)
(*                                                                         *)
(* A round name is the sequence of its characters, so that the key of the  *)
(* sort is computed from the digits the name holds.                        *)
(***************************************************************************)

\* Largest number of distinct round names in one table.
MaxRoundNames == 3

DigitChars == <<"0", "1", "2", "3", "4", "5", "6", "7", "8", "9">>

LowerChars == <<"a", "b", "c", "d", "e", "f", "g", "h", "i", "j", "k", "l", "m",
                "n", "o", "p", "q", "r", "s", "t", "u", "v", "w", "x", "y", "z">>

UpperChars == <<"A", "B", "C", "D", "E", "F", "G", "H", "I", "J", "K", "L", "M",
                "N", "O", "P", "Q", "R", "S", "T", "U", "V", "W", "X", "Y", "Z">>

\* Code point order of the characters that round names are written with.
CodePoints == <<" ">> \o DigitChars \o UpperChars \o LowerChars

\* round_name is NULL in the row of a team that has no round rows.
NoneName == <<NullRound>>

\* Round names as the store holds them.
StoredRoundNames ==
    { <<"r", "o", "u", "n", "d", " ", "2">>,
      <<"r", "o", "u", "n", "d", " ", "1", "0">>,
      <<"r", "o", "u", "n", "d", " ", "1", "0", "0", "0">>,
      <<"b", "o", "n", "u", "s">>,
      <<"f", "i", "n", "a", "l">> }

\* str.isdigit of one character.
isdigit(c) == c \in Range(DigitChars)

IsLetter(c) == c \in Range(LowerChars) \cup Range(UpperChars)

\* int(...) of a non-empty string of digits.
RECURSIVE int(_)
int(ds) ==
    IF ds = <<>> THEN 0
    ELSE 10 * int(SubSeq(ds, 1, Len(ds) - 1)) + (Ord(DigitChars, ds[Len(ds)]) - 1)

\* str.title(): a letter that starts a run of letters is upper-cased, the other
\* letters are lower-cased.
title(x) ==
    [i \in 1..Len(x) |->
        IF ~IsLetter(x[i]) THEN x[i]
        ELSE IF i = 1 \/ ~IsLetter(x[i - 1])
             THEN (IF x[i] \in Range(LowerChars) THEN UpperChars[Ord(LowerChars, x[i])] ELSE x[i])
             ELSE (IF x[i] \in Range(UpperChars) THEN LowerChars[Ord(UpperChars, x[i])] ELSE x[i])]

\* Whether evaluating the key raises: iterating over None is a TypeError.
KeyRaises(x) == x = NoneName

\* lambda x: int(''.join(filter(str.isdigit, x))) if any(c.isdigit() for c in x) else 999
natural_key(x) ==
    IF \E i \in 1..Len(x) : isdigit(x[i]) THEN int(SelectSeq(x, isdigit)) ELSE 999

\* Code point comparison of two strings (the order of the pivot's column index).
RECURSIVE StrLess(_, _)
StrLess(a, b) ==
    IF b = <<>> THEN FALSE
    ELSE IF a = <<>> THEN TRUE
    ELSE IF a[1] # b[1] THEN Ord(CodePoints, a[1]) < Ord(CodePoints, b[1])
    ELSE StrLess(Tail(a), Tail(b))

\* The sequence that lists the strings of S in code point order.
RECURSIVE StrSorted(_)
StrSorted(S) ==
    IF S = {} THEN <<>>
    ELSE LET m == CHOOSE x \in S : \A y \in S \ {x} : StrLess(x, y)
         IN  <<m>> \o StrSorted(S \ {m})

\* Insertion of x behind every element whose key is not larger (a stable sort step).
RECURSIVE InsertByKey(_, _)
InsertByKey(out, x) ==
    IF out = <<>> THEN <<x>>
    ELSE IF natural_key(out[Len(out)]) <= natural_key(x) THEN Append(out, x)
    ELSE Append(InsertByKey(SubSeq(out, 1, Len(out) - 1), x), out[Len(out)])

\* sorted(xs, key=natural_key), which is stable.
RECURSIVE sorted(_)
sorted(xs) ==
    IF xs = <<>> THEN <<>>
    ELSE InsertByKey(sorted(SubSeq(xs, 1, Len(xs) - 1)), xs[Len(xs)])

\* try: rounds = sorted(rounds, key=...)  except: pass
TrySorted(xs) ==
    IF \E i \in 1..Len(xs) : KeyRaises(xs[i])
    THEN [rounds |-> xs, raised |-> TRUE]
    ELSE [rounds |-> sorted(xs), raised |-> FALSE]

\* Sequences of at most n elements of S.
RECURSIVE SeqsOf(_, _)
SeqsOf(S, n) ==
    IF n = 0 THEN {<<>>}
    ELSE LET shorter == SeqsOf(S, n - 1)
         IN  shorter \cup {Append(q, x) : q \in shorter, x \in S}

NoRepeats(q) == \A i, j \in 1..Len(q) : i # j => q[i] # q[j]

\* The pivot's column index on the General Stats page: the round names of the
\* average table in code point order.
PivotColumnIndexes ==
    {StrSorted(S) : S \in {T \in SUBSET StoredRoundNames : Cardinality(T) <= MaxRoundNames}}

\* full_game_results['round_name'].unique() on the Team Analysis page: the names in
\* the order of their first row, None for a team without round rows.  The table has
\* rows, so there is at least one name.
UniqueRoundNames ==
    {q \in SeqsOf(StoredRoundNames \cup {NoneName}, MaxRoundNames) : q # <<>> /\ NoRepeats(q)}

RInit ==
    \/ \E cols \in PivotColumnIndexes :
          rnd = [NoRounds EXCEPT !.stage = "found", !.site = "general", !.given = cols]
    \/ \E names \in UniqueRoundNames :
          rnd = [NoRounds EXCEPT !.stage = "found", !.site = "team", !.given = names]

\* General Stats 107-114: title-case the columns, then order them.
SortPivotColumns ==
    /\ rnd.stage = "found"
    /\ rnd.site = "general"
    /\ LET columns == [i \in 1..Len(rnd.given) |-> title(rnd.given[i])]
           res == TrySorted(columns)
       IN  rnd' = [rnd EXCEPT !.stage = "ordered", !.given = columns,
                              !.rounds = res.rounds, !.raised = res.raised]
    /\ UNCHANGED <<coreVars, side, fin, cmp, radar, sql, pick>>

\* Team Analysis 109-114: order the round names of the game.
SortRounds ==
    /\ rnd.stage = "found"
    /\ rnd.site = "team"
    /\ LET res == TrySorted(rnd.given)
       IN  rnd' = [rnd EXCEPT !.stage = "ordered", !.rounds = res.rounds,
                              !.raised = res.raised]
    /\ UNCHANGED <<coreVars, side, fin, cmp, radar, sql, pick>>

RNext ==
    \/ SortPivotColumns
    \/ SortRounds

RoundsInit ==
    /\ RInit
    /\ CoreIdle
    /\ side = NoSide /\ fin = NoFinishes /\ cmp = NoCompare /\ radar = NoRadar /\ sql = NoSql
    /\ pick = NoPick

SpecRounds == RoundsInit /\ [][RNext]_vars

(***************************************************************************)
(* Claims about the round order                                            *)
(***************************************************************************)
HasDigits(x) == \E i \in 1..Len(x) : x[i] \in Range(DigitChars)

\* The integer written by the digits of a name, read left to right.
NumberOf(x) == int(SelectSeq(x, LAMBDA c : c \in Range(DigitChars)))

\* C11: names with digits ascend by the integer of their digits, every name
\* without digits comes after all names with digits, and names without digits
\* keep their encounter order; on both pages, also with a team without round rows.
C11_NaturalRoundOrder ==
    rnd.stage = "ordered" =>
        /\ Len(rnd.rounds) = Len(rnd.given)
        /\ Range(rnd.rounds) = Range(rnd.given)
        /\ \A i, j \in 1..Len(rnd.rounds) :
              i < j =>
                 /\ (HasDigits(rnd.rounds[i]) /\ HasDigits(rnd.rounds[j]))
                       => NumberOf(rnd.rounds[i]) <= NumberOf(rnd.rounds[j])
                 /\ ~(~HasDigits(rnd.rounds[i]) /\ HasDigits(rnd.rounds[j]))
                 /\ (~HasDigits(rnd.rounds[i]) /\ ~HasDigits(rnd.rounds[j]))
                       => Ord(rnd.given, rnd.rounds[i]) < Ord(rnd.given, rnd.rounds[j])

(***************************************************************************)
(* Part 6.  Sidebar filters (src/utils.py render_sidebar_filters) and the  *)
(*          filter arguments of the queries each page issues               *)
(*                                                                         *)
(* An interaction is an event in the browser (a filter widget changed, the *)
(* page switched, some other control used) followed by one run of the      *)
(* page script.  The store is up and holds data, so that every page gets   *)
(* as far as its queries.                                                  *)
(***************************************************************************)

\* Largest number of values the user selects in one filter.
MaxSelected == 1

\* What a multiselect can return.
Selections == {SubSeq(FilterValues, 1, n) : n \in 0..MaxSelected}

NoSelection == [f \in FilterNames |-> <<>>]

\* A multiselect that the current page has not rendered yet.
NoWidget == [present |-> FALSE, default |-> <<>>, value |-> <<>>]

\* How the framework tells that the widget of a rerun is the widget of the last run:
\* by its key alone, or by its key and parameters (default among them).  Releases of
\* the framework differ in this.
Identities == {"key", "params"}

\* st.sidebar.multiselect(label, options, default=default, key=...): a widget that
\* is the one of the last run returns the value the browser holds for it; any
\* other is new and returns its default.
multiselect(identity, w, default) ==
    LET same == w.present /\ (identity = "key" \/ w.default = default)
    IN  [present |-> TRUE, default |-> default,
         value |-> IF same THEN w.value ELSE default]

\* if "persistent_..." not in st.session_state: st.session_state[...] = []
EnsurePersistent(s) == IF s.has_persistent THEN s.persistent ELSE NoSelection

\* render_sidebar_filters(): each multiselect takes the persistent value as its
\* default and its return value is written back and returned.
render_sidebar_filters(s) ==
    LET persistent == EnsurePersistent(s)
        widgets == [f \in FilterNames |-> multiselect(s.identity, s.widgets[f], persistent[f])]
        selected == [f \in FilterNames |-> widgets[f].value]
    IN  [s EXCEPT !.has_persistent = TRUE, !.persistent = selected,
                  !.widgets = widgets, !.filters = selected]

\* The filterable queries of each page with the arguments the page passes; an
\* argument the call leaves out takes its default, None.
MainQueries(filters) ==
    <<build_games_list(ListArg(filters["game_names"]), ListArg(filters["categories"]),
                       NoneArg)>>

GeneralQueries(filters) ==
    <<build_overall_top_teams(ListArg(filters["game_names"]),
                              ListArg(filters["categories"]), ListArg(filters["venues"])),
      build_top_n_finishes(ListArg(filters["game_names"]),
                           ListArg(filters["categories"]), ListArg(filters["venues"])),
      build_avg_round_scores_by_team(ListArg(filters["game_names"]),
                                     ListArg(filters["categories"]),
                                     ListArg(filters["venues"]))>>

TeamQueries(filters) ==
    <<build_team_game_history(ListArg(filters["game_names"]),
                              ListArg(filters["categories"]), NoneArg),
      build_team_game_history(ListArg(filters["game_names"]),
                              ListArg(filters["categories"]), NoneArg)>>

\* The session opens on some page; nothing is stored or rendered yet.
FInit ==
    \E p \in Pages, id \in Identities :
        side = [stage |-> "event", page |-> p, identity |-> id,
                has_persistent |-> FALSE, persistent |-> NoSelection,
                widgets |-> [f \in FilterNames |-> NoWidget],
                want |-> NoSelection, filters |-> NoSelection, issued |-> <<>>]

FiltersUnchanged == UNCHANGED <<coreVars, rnd, fin, cmp, radar, sql, pick>>

\* The user changes the selection of one filter widget.
SelectFilter ==
    /\ side.stage = "rest"
    /\ \E f \in FilterNames, v \in Selections :
          /\ v # side.widgets[f].value
          /\ side' = [side EXCEPT !.stage = "event", !.want[f] = v,
                                  !.widgets[f].value = v]
    /\ FiltersUnchanged

\* The user opens another page: its widgets are new ones.
SwitchPage ==
    /\ side.stage = "rest"
    /\ \E p \in Pages \ {side.page} :
          side' = [side EXCEPT !.stage = "event", !.page = p,
                               !.widgets = [f \in FilterNames |-> NoWidget]]
    /\ FiltersUnchanged

\* The user uses some other control of the page (a slider, a selector).
OtherControl ==
    /\ side.stage = "rest"
    /\ side' = [side EXCEPT !.stage = "event"]
    /\ FiltersUnchanged

\* One run of a page script: the sidebar, then the page's queries.
RunMain ==
    /\ side.stage = "event"
    /\ side.page = "Main"
    /\ LET s == render_sidebar_filters(side)
       IN  side' = [s EXCEPT !.stage = "rest", !.issued = MainQueries(s.filters)]
    /\ FiltersUnchanged

RunGeneralStats ==
    /\ side.stage = "event"
    /\ side.page = "General"
    /\ LET s == render_sidebar_filters(side)
       IN  side' = [s EXCEPT !.stage = "rest", !.issued = GeneralQueries(s.filters)]
    /\ FiltersUnchanged

RunTeamAnalysis ==
    /\ side.stage = "event"
    /\ side.page = "Team"
    /\ LET s == render_sidebar_filters(side)
       IN  side' = [s EXCEPT !.stage = "rest", !.issued = TeamQueries(s.filters)]
    /\ FiltersUnchanged

FNext ==
    \/ SelectFilter
    \/ SwitchPage
    \/ OtherControl
    \/ RunMain
    \/ RunGeneralStats
    \/ RunTeamAnalysis

FiltersInit ==
    /\ FInit
    /\ CoreIdle
    /\ RoundsIdle /\ fin = NoFinishes /\ cmp = NoCompare /\ radar = NoRadar /\ sql = NoSql
    /\ pick = NoPick

SpecFilters == FiltersInit /\ [][FNext]_vars

(***************************************************************************)
(* Claims about the filters                                                *)
(***************************************************************************)
\* A query carries the filter f with the values vals.
Carries(q, f, vals) ==
    /\ \E pred \in InPreds(f) : pred \in Range(q.where_clause)
    /\ f \in DOMAIN q.params
    /\ q.params[f] = vals

\* C12: every filter the user has selected is passed to every filter-accepting
\* query the page issues in that interaction.
C12_SelectedFiltersReachQueries ==
    side.stage = "rest" =>
        \A i \in 1..Len(side.issued) :
            \A f \in FilterNames :
                side.filters[f] # <<>> => Carries(side.issued[i], f, side.filters[f])

\* C13: after every interaction the values returned by render_sidebar_filters and
\* those under the persistent keys are the user's most recent selection of each
\* filter (empty at the start, kept by interactions that do not change them).
C13_FiltersPersist ==
    side.stage = "rest" =>
        \A f \in FilterNames :
            /\ side.filters[f] = side.want[f]
            /\ side.persistent[f] = side.want[f]

\* Where the framework identifies the widget by its key alone, the selection
\* persists.
C13_PersistWithKeyIdentity ==
    (side.stage = "rest" /\ side.identity = "key") =>
        \A f \in FilterNames :
            /\ side.filters[f] = side.want[f]
            /\ side.persistent[f] = side.want[f]

(***************************************************************************)
(* Part 7.  Top-N finish counts (src/db.py get_top_n_finishes)             *)
(*                                                                         *)
(* The query is evaluated over a small store: the WHERE clause is the one  *)
(* composed in part 1, each of its predicates is applied to the joined     *)
(* rows, the rows are grouped by team name and counted.                    *)
(***************************************************************************)

\* Number of teams in the store.
MaxFinTeams == 2

FinTeams == {TeamNames[i] : i \in 1..MaxFinTeams}

\* The store holds two games.
FinGames == {1, 2}

\* The ranks that occur: a first place, and a third place that counts from
\* top_n = 3 on.
FinRanks == {1, 3}

\* The choices of the "Top N" selector of the General Stats page.
TopNChoices == {1, 3, 5, 10}

\* The values a game's name, category and venue are drawn from.
GameAttrValues == {FilterValues[1], FilterValues[2]}

GameAttrs == [game_name : GameAttrValues, category : GameAttrValues, venue : GameAttrValues]

\* The first game has the first value in every attribute; the others vary.
FinGameTables == {g \in [FinGames -> GameAttrs] : g[1] = [game_name |-> FilterValues[1],
                                                          category |-> FilterValues[1],
                                                          venue |-> FilterValues[1]]}

\* Filter arguments of the call: None, the empty list, or a list of one value.
FinFilterArgs == {NoneArg, ListArg(<<>>), ListArg(<<FilterValues[1]>>)}

\* rank of a team in a game, 0 where the team did not take part.
FinParticipations == [FinTeams \X FinGames -> {0} \cup FinRanks]

\* FROM teams t JOIN team_game_participations tgp JOIN games g: one row per
\* participation.
JoinedParticipations(parts, games) ==
    {[name |-> tg[1], game |-> tg[2], rank |-> parts[tg], g |-> games[tg[2]]] :
        tg \in {x \in FinTeams \X FinGames : parts[x] > 0}}

\* tgp.rank < :top_n, a threshold that leaves the N-th place out.
RankWithinStrict(rank, top_n) == rank < top_n

\* tgp.rank <= :top_n
RankWithin(rank, top_n) == rank <= top_n

\* One predicate of the WHERE clause applied to a joined row, with the bound
\* parameters.
EvalPredicate(pred, row, top_n, params) ==
    IF pred = "tgp.rank <= :top_n" THEN RankWithin(row.rank, top_n)
    ELSE IF pred = "g.game_name IN :game_names"
         THEN row.g.game_name \in Range(params["game_names"])
    ELSE IF pred = "g.category IN :categories"
         THEN row.g.category \in Range(params["categories"])
    ELSE IF pred = "g.venue IN :venues"
         THEN row.g.venue \in Range(params["venues"])
    ELSE FALSE

\* WHERE p1 AND p2 ...: the rows that satisfy every predicate of the query.
WhereRows(rows, q, top_n) ==
    {r \in rows : \A i \in 1..Len(q.filters) : EvalPredicate(q.filters[i], r, top_n, q.params)}

\* SELECT t.name, COUNT(*) as finish_count ... GROUP BY t.name
GroupCount(rows) ==
    {[name |-> n, finish_count |-> Cardinality({r \in rows : r.name = n})] :
        n \in {r.name : r \in rows}}

\* ORDER BY finish_count DESC: every order of the groups in which the counts do
\* not increase (equal counts come in any order).
RECURSIVE OrderByCountDesc(_)
OrderByCountDesc(groups) ==
    IF groups = {} THEN {<<>>}
    ELSE UNION {{<<m>> \o rest : rest \in OrderByCountDesc(groups \ {m})} :
                  m \in {x \in groups : \A y \in groups : y.finish_count <= x.finish_count}}

\* The tables get_top_n_finishes can return.
TopNFinishes(parts, games, top_n, gn, cat, ven) ==
    LET q == build_top_n_finishes(gn, cat, ven)
    IN  OrderByCountDesc(GroupCount(WhereRows(JoinedParticipations(parts, games), q, top_n)))

\* The store holds some games and participations; the page is about to call
\* the query with the selector's top_n and the sidebar's filters.
TInit ==
    \E parts \in FinParticipations, games \in FinGameTables, n \in TopNChoices,
       gn \in FinFilterArgs, cat \in FinFilterArgs, ven \in FinFilterArgs :
        fin = [NoFinishes EXCEPT !.stage = "stored", !.parts = parts, !.games = games,
                                 !.top_n = n, !.game_names = gn, !.categories = cat,
                                 !.venues = ven]

\* finishes_df = get_top_n_finishes(top_n=..., game_names=..., categories=..., venues=...)
GetTopNFinishes ==
    /\ fin.stage = "stored"
    /\ \E df \in TopNFinishes(fin.parts, fin.games, fin.top_n, fin.game_names,
                              fin.categories, fin.venues) :
          fin' = [fin EXCEPT !.stage = "returned", !.finishes_df = df]
    /\ UNCHANGED <<coreVars, rnd, side, cmp, radar, sql, pick>>

TNext == GetTopNFinishes

FinishesInit ==
    /\ TInit
    /\ CoreIdle
    /\ RoundsIdle /\ side = NoSide /\ cmp = NoCompare /\ radar = NoRadar /\ sql = NoSql
    /\ pick = NoPick

SpecFinishes == FinishesInit /\ [][TNext]_vars

(***************************************************************************)
(* Claims about the finish counts                                          *)
(***************************************************************************)
\* A game matches the filters: each non-empty filter lists the game's value.
GameMatches(g, gn, cat, ven) ==
    /\ NonEmptyArg(gn) => g.game_name \in Range(gn.vals)
    /\ NonEmptyArg(cat) => g.category \in Range(cat.vals)
    /\ NonEmptyArg(ven) => g.venue \in Range(ven.vals)

\* The participations of a team with rank <= top_n in games matching the filters.
Qualifying(team) ==
    {gm \in FinGames :
        /\ fin.parts[<<team, gm>>] > 0
        /\ fin.parts[<<team, gm>>] <= fin.top_n
        /\ GameMatches(fin.games[gm], fin.game_names, fin.categories, fin.venues)}

MaxCmpTeams == 2

\* Ranks in the compared game: winners, and the others.
CmpRanks == {1, 2}

MaxScore == 1

\* The round rows of one participation: per round a score, or no row.
ScoreTables == [Range(RoundNames) -> {NullScore} \cup 0..MaxScore]

CmpParticipations(n) == [1..n -> [rank : CmpRanks, scores : ScoreTables]]

\* The rows of the LEFT JOIN for the compared game.
CmpJoinRows(n, parts) ==
    UNION {IF \A r \in Range(RoundNames) : parts[i].scores[r] = NullScore
           THEN {[name |-> TeamNames[i], rank |-> parts[i].rank,
                  total_score |-> TotalOf(parts[i].rank),
                  round_name |-> NullRound, score |-> NullScore]}
           ELSE {[name |-> TeamNames[i], rank |-> parts[i].rank,
                  total_score |-> TotalOf(parts[i].rank),
                  round_name |-> r, score |-> parts[i].scores[r]]
                 : r \in {x \in Range(RoundNames) : parts[i].scores[x] # NullScore}}
           : i \in 1..n}

\* The characters of a round name, for the natural sort.
RoundChars(r) ==
    IF r = NullRound THEN NoneName
    ELSE IF r = RoundNames[1] THEN <<"r", "o", "u", "n", "d", " ", "1">>
    ELSE <<"r", "o", "u", "n", "d", " ", "2">>

\* df[...].unique(): the distinct values in the order of their first row.
RECURSIVE unique(_)
unique(xs) ==
    IF xs = <<>> THEN <<>>
    ELSE LET front == unique(SubSeq(xs, 1, Len(xs) - 1))
         IN  IF xs[Len(xs)] \in Range(front) THEN front ELSE Append(front, xs[Len(xs)])

\* rounds = full_game_results['round_name'].unique(), then the natural sort inside
\* try / except.
SortedRounds(results) ==
    LET names == unique([i \in 1..Len(results) |-> results[i].round_name])
        res == TrySorted([i \in 1..Len(names) |-> RoundChars(names[i])])
    IN  [i \in 1..Len(names) |->
            CHOOSE r \in Range(names) : RoundChars(r) = res.rounds[i]]

\* r in df.index, for a table indexed by round_name.
InIndex(df, r) == \E i \in 1..Len(df) : df[i].round_name = r

\* df.loc[r, 'score'] of a table whose index has r once: NaN for a NULL score.
Loc(df, r) == df[CHOOSE i \in 1..Len(df) : df[i].round_name = r].score

\* winner_results[~winner_results.index.duplicated(keep='first')]
DropDuplicated(df) ==
    SelectSeq([i \in 1..Len(df) |->
                  [row |-> df[i],
                   dup |-> \E j \in 1..(i - 1) : df[j].round_name = df[i].round_name]],
              LAMBDA e : ~e.dup)

\* full_game_results.groupby('round_name')['score'].max(): NULL keys form no group.
round_max_scores(results) ==
    [r \in {results[i].round_name : i \in 1..Len(results)} \ {NullRound} |->
        CHOOSE m \in {results[i].score : i \in {j \in 1..Len(results) : results[j].round_name = r}} :
            \A i \in 1..Len(results) : results[i].round_name = r => results[i].score <= m]

\* The first team at the round's maximum only.
max_scorers_first(results, r, max_score) ==
    LET hit == SelectSeq(results, LAMBDA row : row.round_name = r /\ row.score = max_score
                                               /\ r # NullRound)
    IN  IF hit = <<>> THEN <<>> ELSE <<hit[1].name>>

\* full_game_results[(round_name == r) & (score == max_score)]['name'].unique();
\* no row compares equal to None.
max_scorers(results, r, max_score) ==
    LET hit == SelectSeq(results, LAMBDA row : row.round_name = r /\ row.score = max_score
                                               /\ r # NullRound)
    IN  unique([i \in 1..Len(hit) |-> hit[i].name])

\* The plot_data list built for the selected team.
PlotData(results, selected_team_name) ==
    LET team_results == SelectSeq(results, LAMBDA row : row.name = selected_team_name)
        winners == SelectSeq(results, LAMBDA row : row.rank = 1)
        winner_name == IF winners # <<>> THEN winners[1].name ELSE "Unknown"
        dedup == DropDuplicated(winners)
        winner_results == [i \in 1..Len(dedup) |-> dedup[i].row]
        maxes == round_max_scores(results)
        rounds == SortedRounds(results)
    IN  [i \in 1..Len(rounds) |->
            LET r == rounds[i]
                max_score == IF r \in DOMAIN maxes THEN maxes[r] ELSE 0
            IN  [Round |-> r,
                 TeamPoints |-> IF InIndex(team_results, r) THEN Loc(team_results, r) ELSE 0,
                 WinnerPoints |-> IF InIndex(winner_results, r) THEN Loc(winner_results, r)
                                  ELSE 0,
                 WinnerName |-> winner_name,
                 MaxPoints |-> max_score,
                 MaxScorer |-> max_scorers(results, r, max_score)]]

\* The selected team took part in the game chosen from its history.
CInit ==
    \E n \in 1..MaxCmpTeams :
        \E parts \in CmpParticipations(n), t \in 1..n :
            cmp = [NoCompare EXCEPT !.stage = "stored", !.n = n, !.parts = parts,
                                    !.selected_team_name = TeamNames[t]]

\* full_game_results = get_full_game_results(selected_game_id)
FetchComparedGame ==
    /\ cmp.stage = "stored"
    /\ \E res \in Orders(CmpJoinRows(cmp.n, cmp.parts), "query") :
          cmp' = [cmp EXCEPT !.stage = "fetched", !.full_game_results = res]
    /\ UNCHANGED <<coreVars, rnd, side, fin, radar, sql, pick>>

\* if not full_game_results.empty: ... plot_data
CompareRounds ==
    /\ cmp.stage = "fetched"
    /\ cmp.full_game_results # <<>>
    /\ cmp' = [cmp EXCEPT !.stage = "compared",
                          !.plot_data = PlotData(cmp.full_game_results,
                                                 cmp.selected_team_name)]
    /\ UNCHANGED <<coreVars, rnd, side, fin, radar, sql, pick>>

CNext ==
    \/ FetchComparedGame
    \/ CompareRounds

CompareInit ==
    /\ CInit
    /\ CoreIdle
    /\ RoundsIdle /\ side = NoSide /\ fin = NoFinishes /\ radar = NoRadar /\ sql = NoSql
    /\ pick = NoPick

SpecCompare == CompareInit /\ [][CNext]_vars

(***************************************************************************)
(* Claims about the round comparison                                       *)
(***************************************************************************)
\* The score row a team has for a round of the game (NullScore: no row).
StoredScore(name, r) == cmp.parts[Ord(TeamNames, name)].scores[r]

\* The distinct round names of the compared game.
GameRounds ==
    {r \in Range(RoundNames) : \E i \in 1..cmp.n : cmp.parts[i].scores[r] # NullScore}

\* The highest score any team of the game has in a round.
RoundMax(r) ==
    CHOOSE m \in 0..MaxScore :
        /\ \E i \in 1..cmp.n : cmp.parts[i].scores[r] = m
        /\ \A i \in 1..cmp.n : cmp.parts[i].scores[r] <= m

ScoreOrZero(name, r) == IF StoredScore(name, r) = NullScore THEN 0 ELSE StoredScore(name, r)

EntriesFor(r) == {i \in 1..Len(cmp.plot_data) : cmp.plot_data[i].Round = r}

\* C15: the comparison has exactly one entry per distinct round name of the game;
\* Team Points is the selected team's score in the round, 0 without a score row,
\* and Max Points is the round's maximum over all teams.
C15_RoundAwareComparison ==
    cmp.stage = "compared" =>
        /\ Len(cmp.plot_data) = Cardinality(GameRounds)
        /\ \A r \in GameRounds : Cardinality(EntriesFor(r)) = 1
        /\ \A i \in 1..Len(cmp.plot_data) :
              LET e == cmp.plot_data[i]
              IN  /\ e.Round \in GameRounds
                  /\ e.TeamPoints = ScoreOrZero(cmp.selected_team_name, e.Round)
                  /\ e.MaxPoints = RoundMax(e.Round)

\* The entries of the stored rounds are as C15 says; what fails is the additional
\* entry for the NULL round name of a team without round rows.
C15_StoredRoundsCompared ==
    cmp.stage = "compared" =>
        /\ \A r \in GameRounds : Cardinality(EntriesFor(r)) = 1
        /\ \A i \in 1..Len(cmp.plot_data) :
              LET e == cmp.plot_data[i]
              IN  \/ /\ e.Round = NullRound
                     /\ \E t \in 1..cmp.n : \A r \in Range(RoundNames) :
                           cmp.parts[t].scores[r] = NullScore
                  \/ /\ e.Round \in GameRounds
                     /\ e.TeamPoints = ScoreOrZero(cmp.selected_team_name, e.Round)
                     /\ e.MaxPoints = RoundMax(e.Round)

\* C16: for every round of the compared game the Max Scorer list holds exactly the
\* teams whose score in the round is the round's maximum, each once.
C16_MaxScorersAreAllTied ==
    cmp.stage = "compared" =>
        \A r \in GameRounds :
            \E i \in EntriesFor(r) :
                LET scorers == cmp.plot_data[i].MaxScorer
                IN  /\ Range(scorers) = {TeamNames[t] : t \in {u \in 1..cmp.n :
                                            cmp.parts[u].scores[r] = RoundMax(r)}}
                    /\ \A a, b \in 1..Len(scorers) : a # b => scorers[a] # scorers[b]

\* Both teams are at the maximum of one round and only one of them at the maximum
\* of the other.
C16_Witness ==
    /\ cmp.stage = "compared"
    /\ cmp.n = 2
    /\ GameRounds = Range(RoundNames)
    /\ \E i \in EntriesFor(RoundNames[1]) : Len(cmp.plot_data[i].MaxScorer) = 2
    /\ \E i \in EntriesFor(RoundNames[2]) : Len(cmp.plot_data[i].MaxScorer) = 1
    /\ \E t \in 1..cmp.n : cmp.parts[t].scores[RoundNames[2]] \in 0..(MaxScore - 1)

\* C19: the Winner Points of every round are scores of one team, the team shown as
\* Winner Name, which is the team of the first rank-1 row of the results.
C19_WinnerPointsOfWinnerName ==
    (cmp.stage = "compared" /\ \E t \in 1..cmp.n : cmp.parts[t].rank = 1) =>
        \A i \in 1..Len(cmp.plot_data) :
            LET e == cmp.plot_data[i]
                first == CHOOSE j \in 1..Len(cmp.full_game_results) :
                            /\ cmp.full_game_results[j].rank = 1
                            /\ \A k \in 1..(j - 1) : cmp.full_game_results[k].rank # 1
            IN  /\ e.WinnerName = cmp.full_game_results[first].name
                /\ e.Round \in GameRounds =>
                      e.WinnerPoints = ScoreOrZero(e.WinnerName, e.Round)

\* With a single team at rank 1 the Winner Points are that team's scores.
C19_SingleWinnerPoints ==
    (cmp.stage = "compared" /\ Cardinality({t \in 1..cmp.n : cmp.parts[t].rank = 1}) = 1) =>
        \A i \in 1..Len(cmp.plot_data) :
            LET e == cmp.plot_data[i]
            IN  e.Round \in GameRounds => e.WinnerPoints = ScoreOrZero(e.WinnerName, e.Round)

(***************************************************************************)
(* Part 9.  Radar normalization of the team comparison                     *)
(*          (pages/2_Team_Analysis.py 215-261)                             *)
(*                                                                         *)
(* Numbers with one decimal are held in tenths: 3.0 is 30.                 *)
(***************************************************************************)

\* Longest game history of a team and the worst rank in it.
MaxRadarGames == 4

MaxRadarRank == 12

\* round(x, 1) of x = num / den, in tenths.  A value half-way between two tenths
\* goes to the even one; with fewer than 20 games such a value ends in .25 or .75
\* and is held exactly.
RoundTenths(num, den) ==
    LET q == (10 * num) \div den
        rem == (10 * num) % den
    IN  IF 2 * rem < den THEN q
        ELSE IF 2 * rem > den THEN q + 1
        ELSE IF q % 2 = 0 THEN q ELSE q + 1

\* 'Avg Rank': round(df['rank'].mean(), 1) of a history with the given rank sum.
AvgRank(rank_sum, games_played) == RoundTenths(rank_sum, games_played)

Max2(a, b) == IF a >= b THEN a ELSE b

\* max(r1, r2) without the floor of 10.
max_avg_rank_unfloored(r1, r2) == Max2(r1, r2)

\* max_avg_rank = max(team1_metrics['Avg Rank'], team2_metrics['Avg Rank'], 10)
max_avg_rank(r1, r2) == Max2(Max2(r1, r2), 100)

\* The 'Consistency (Inv. Rank)' entries of team1_radar and team2_radar.
InvertedRanks(r1, r2) ==
    [team1 |-> max_avg_rank(r1, r2) - r1, team2 |-> max_avg_rank(r1, r2) - r2]

\* The rank sums a history of n games can have.
RankSums(n) == n..(n * MaxRadarRank)

\* Both teams have a game history (neither table is empty).
AInit ==
    \E n1 \in 1..MaxRadarGames, n2 \in 1..MaxRadarGames :
        \E s1 \in RankSums(n1), s2 \in RankSums(n2) :
            radar = [NoRadar EXCEPT !.stage = "histories",
                                    !.games1 = n1, !.sum1 = s1, !.games2 = n2, !.sum2 = s2]

\* calculate_team_metrics for both teams, then the inverted ranks of the radar.
NormalizeRadar ==
    /\ radar.stage = "histories"
    /\ LET r1 == AvgRank(radar.sum1, radar.games1)
           r2 == AvgRank(radar.sum2, radar.games2)
           inv == InvertedRanks(r1, r2)
       IN  radar' = [radar EXCEPT !.stage = "normalized", !.avg_rank1 = r1,
                                  !.avg_rank2 = r2, !.team1_radar = inv.team1,
                                  !.team2_radar = inv.team2]
    /\ UNCHANGED <<coreVars, rnd, side, fin, cmp, sql, pick>>

ANext == NormalizeRadar

RadarInit ==
    /\ AInit
    /\ CoreIdle
    /\ RoundsIdle /\ side = NoSide /\ fin = NoFinishes /\ cmp = NoCompare /\ sql = NoSql
    /\ pick = NoPick

SpecRadar == RadarInit /\ [][ANext]_vars

(***************************************************************************)
(* Claims about the radar                                                  *)
(***************************************************************************)
\* The largest of three numbers.
Largest(a, b, c) == CHOOSE m \in {a, b, c} : a <= m /\ b <= m /\ c <= m

MaxParam == 2

\* limit=None, or an integer.
NoLimit == [none |-> TRUE, val |-> 0]

LimitArgs == {NoLimit} \cup {[none |-> FALSE, val |-> n] : n \in 0..MaxParam}

\* Filter arguments with different values behind the same pattern.
TextFilterArgs ==
    {NoneArg, ListArg(<<>>), ListArg(<<FilterValues[1]>>), ListArg(<<FilterValues[2]>>)}

\* limit_clause with the number written into the text.
limit_clause_inline(limit) ==
    IF ~limit.none THEN <<"LIMIT " \o ToString(limit.val)>> ELSE <<>>

\* limit_clause = "LIMIT :limit_val" if limit is not None else ""
limit_clause(limit) == IF ~limit.none THEN <<"LIMIT :limit_val">> ELSE <<>>

\* params with one more bound value.
WithParam(params, key, val) ==
    [k \in DOMAIN params \cup {key} |-> IF k = key THEN val ELSE params[k]]

\* What a query function hands to run_query.
Handed(text, params) == [text |-> text, params |-> params]

text_summary_stats(gn, cat, ven) ==
    LET q == build_summary_stats(gn, cat, ven)
    IN  Handed(<<"WITH filtered_games AS ( SELECT id, game_date FROM quizplease.games">>
               \o q.where_clause
               \o <<"), game_counts AS ( ... ) SELECT ... as total_games, ... as avg_teams, ... as latest_game;">>,
               q.params)

text_games_list(gn, cat, ven) ==
    LET q == build_games_list(gn, cat, ven)
    IN  Handed(<<"SELECT id, game_date, game_name, game_number, category, venue FROM quizplease.games">>
               \o q.where_clause \o <<"ORDER BY game_date DESC;">>,
               q.params)

text_overall_top_teams(limit, gn, cat, ven) ==
    LET q == build_overall_top_teams(gn, cat, ven)
    IN  Handed(<<"SELECT t.id, t.name, COUNT(tgp.game_id) as games_played, ... FROM quizplease.teams t JOIN ... JOIN ...">>
               \o q.where_clause
               \o <<"GROUP BY t.id, t.name ORDER BY total_points DESC">>
               \o limit_clause(limit) \o <<";">>,
               IF limit.none THEN q.params ELSE WithParam(q.params, "limit_val", limit.val))

text_top_n_finishes(top_n, gn, cat, ven) ==
    LET q == build_top_n_finishes(gn, cat, ven)
    IN  Handed(<<"SELECT t.name, COUNT(*) as finish_count FROM quizplease.teams t JOIN ... JOIN ...">>
               \o q.where_clause
               \o <<"GROUP BY t.name ORDER BY finish_count DESC;">>,
               WithParam(q.params, "top_n", top_n))

text_avg_round_scores_by_team(gn, cat, ven) ==
    LET q == build_avg_round_scores_by_team(gn, cat, ven)
    IN  Handed(<<"SELECT t.name, rs.round_name, AVG(rs.score) as avg_score FROM quizplease.teams t JOIN ... JOIN ... JOIN ...">>
               \o q.where_clause \o <<"GROUP BY t.name, rs.round_name;">>,
               q.params)

text_team_game_history(team_id, gn, cat, ven) ==
    LET q == build_team_game_history(gn, cat, ven)
    IN  Handed(<<"SELECT g.id as game_id, g.game_date, g.game_name, tgp.rank, tgp.total_score, g.venue FROM ... JOIN ...">>
               \o q.where_clause \o <<"ORDER BY g.game_date DESC;">>,
               WithParam(q.params, "team_id", team_id))

text_full_game_results(game_id) ==
    Handed(<<"SELECT t.name, tgp.rank, tgp.total_score, rs.round_name, rs.score FROM ... LEFT JOIN ... WHERE tgp.game_id = :game_id ORDER BY tgp.rank ASC, rs.round_name;">>,
           [k \in {"game_id"} |-> game_id])

\* A call as it is kept: the function, its arguments and what it handed on.
CallOf(fn, extra, gn, cat, ven, handed) ==
    [fn |-> fn, extra |-> extra, game_names |-> gn, categories |-> cat, venues |-> ven,
     text |-> handed.text, params |-> handed.params]

\* The next call of the function fn is recorded as the first or the second one.
Record(fn, call) ==
    /\ sql.stage \in {"none", "one"}
    /\ sql.stage = "one" => sql.first.fn = fn
    /\ sql' = IF sql.stage = "none"
              THEN [sql EXCEPT !.stage = "one", !.first = call]
              ELSE [sql EXCEPT !.stage = "two", !.second = call]
    /\ UNCHANGED <<coreVars, rnd, side, fin, cmp, radar, pick>>

CallSummaryStats ==
    \E gn \in TextFilterArgs, cat \in TextFilterArgs, ven \in TextFilterArgs :
        Record("get_summary_stats",
               CallOf("get_summary_stats", NoLimit, gn, cat, ven,
                      text_summary_stats(gn, cat, ven)))

CallGamesList ==
    \E gn \in TextFilterArgs, cat \in TextFilterArgs, ven \in TextFilterArgs :
        Record("get_games_list",
               CallOf("get_games_list", NoLimit, gn, cat, ven, text_games_list(gn, cat, ven)))

CallOverallTopTeams ==
    \E limit \in LimitArgs, gn \in TextFilterArgs, cat \in TextFilterArgs,
       ven \in TextFilterArgs :
        Record("get_overall_top_teams",
               CallOf("get_overall_top_teams", limit, gn, cat, ven,
                      text_overall_top_teams(limit, gn, cat, ven)))

CallTopNFinishes ==
    \E top_n \in 1..MaxParam, gn \in TextFilterArgs, cat \in TextFilterArgs,
       ven \in TextFilterArgs :
        Record("get_top_n_finishes",
               CallOf("get_top_n_finishes", [none |-> FALSE, val |-> top_n], gn, cat, ven,
                      text_top_n_finishes(top_n, gn, cat, ven)))

CallAvgRoundScores ==
    \E gn \in TextFilterArgs, cat \in TextFilterArgs, ven \in TextFilterArgs :
        Record("get_avg_round_scores_by_team",
               CallOf("get_avg_round_scores_by_team", NoLimit, gn, cat, ven,
                      text_avg_round_scores_by_team(gn, cat, ven)))

CallTeamGameHistory ==
    \E team_id \in 1..MaxParam, gn \in TextFilterArgs, cat \in TextFilterArgs,
       ven \in TextFilterArgs :
        Record("get_team_game_history",
               CallOf("get_team_game_history", [none |-> FALSE, val |-> team_id], gn, cat,
                      ven, text_team_game_history(team_id, gn, cat, ven)))

CallFullGameResults ==
    \E game_id \in 1..MaxParam :
        Record("get_full_game_results",
               CallOf("get_full_game_results", [none |-> FALSE, val |-> game_id],
                      NoneArg, NoneArg, NoneArg, text_full_game_results(game_id)))

XNext ==
    \/ CallSummaryStats
    \/ CallGamesList
    \/ CallOverallTopTeams
    \/ CallTopNFinishes
    \/ CallAvgRoundScores
    \/ CallTeamGameHistory
    \/ CallFullGameResults

TextInit ==
    /\ sql = [NoSql EXCEPT !.stage = "none"]
    /\ CoreIdle
    /\ RoundsIdle /\ side = NoSide /\ fin = NoFinishes /\ cmp = NoCompare /\ radar = NoRadar
    /\ pick = NoPick

SpecText == TextInit /\ [][XNext]_vars

(***************************************************************************)
(* Claims about the query text                                             *)
(***************************************************************************)
\* Which filters of a call are non-empty, and whether it has a limit.
PatternOf(call) ==
    [game_names |-> NonEmptyArg(call.game_names), categories |-> NonEmptyArg(call.categories),
     venues |-> NonEmptyArg(call.venues), extra |-> ~call.extra.none]

\* C18: two calls of a query function whose arguments have the same pattern of
\* empty / non-empty filters and the same presence of a limit generate the same
\* text and bind the same parameter names; only bound values differ.
C18_TextIndependentOfValues ==
    (sql.stage = "two" /\ PatternOf(sql.first) = PatternOf(sql.second)) =>
        /\ sql.first.text = sql.second.text
        /\ DOMAIN sql.first.params = DOMAIN sql.second.params

\* Two calls of get_overall_top_teams with different venues and different
\* limits: one text, different bound values.
C18_Witness ==
    /\ sql.stage = "two"
    /\ sql.first.fn = "get_overall_top_teams"
    /\ NonEmptyArg(sql.first.venues) /\ NonEmptyArg(sql.second.venues)
    /\ sql.first.venues # sql.second.venues
    /\ ~sql.first.extra.none /\ ~sql.second.extra.none
    /\ sql.first.extra.val # sql.second.extra.val
    /\ PatternOf(sql.first) = PatternOf(sql.second)
    /\ sql.first.text = sql.second.text
    /\ sql.first.params["venues"] # sql.second.params["venues"]
    /\ sql.first.params["limit_val"] # sql.second.params["limit_val"]

(***************************************************************************)
(* Part 11.  Game selectors (0_Main.py 58-69, pages/2_Team_Analysis.py     *)
(*           67-83)                                                        *)
(*                                                                         *)
(* A label is the tuple of the fields the f-string shows.                  *)
(***************************************************************************)

\* Number of games in the listed result set, and the largest game id.
MaxListed == 2

MaxGameId == 2

\* Dates (as day numbers), names and sequence numbers of games.
GameDates == {1, 2}

GameTitles == {FilterValues[1], FilterValues[2]}

GameNumbers == {"#1", "#2"}

GameRows == [id : 0..MaxGameId, game_date : GameDates, game_name : GameTitles,
             game_number : GameNumbers]

\* A result set: distinct ids, ORDER BY game_date DESC.
Listings ==
    {l \in SeqsOf(GameRows, MaxListed) :
        /\ l # <<>>
        /\ \A i, j \in 1..Len(l) : i < j => (l[i].id # l[j].id /\ l[i].game_date >= l[j].game_date)}

\* games_df['label'] = game_date + " - " + game_name + " (" + game_number + ")"
MainLabel(row) == <<row.game_date, row.game_name, row.game_number>>

\* f"{row['game_date']} - {row['game_name']}"
TeamLabel(row) == <<row.game_date, row.game_name>>

\* dict(zip(labels, ids)) and the dict comprehension alike: a label that occurs
\* again takes the id of its last row.
LabelDict(labels, ids) ==
    [lb \in Range(labels) |->
        ids[CHOOSE i \in 1..Len(labels) :
               labels[i] = lb /\ \A j \in (i + 1)..Len(labels) : labels[j] # lb]]

\* if selected_game_id:  - false for the id 0
TruthyId(id) == id # 0

\* The listed games of the main page, or the history of the selected team.
PInit ==
    \E site \in {"main", "team"}, games \in Listings :
        pick = [NoPick EXCEPT !.stage = "listed", !.site = site, !.games = games]

\* Main page: label column, label -> id dict, selectbox over the label column.
SelectGameMain ==
    /\ pick.stage = "listed"
    /\ pick.site = "main"
    /\ LET labels == [i \in 1..Len(pick.games) |-> MainLabel(pick.games[i])]
           game_options == LabelDict(labels, [i \in 1..Len(pick.games) |-> pick.games[i].id])
       IN  \E i \in 1..Len(labels) :
              pick' = [pick EXCEPT !.stage = "selected", !.options = labels,
                                   !.game_options = game_options,
                                   !.selected_game_label = labels[i],
                                   !.selected_game_id = game_options[labels[i]],
                                   !.shown = TRUE]
    /\ UNCHANGED <<coreVars, rnd, side, fin, cmp, radar, sql>>

\* Team page: label -> game_id dict, selectbox over its keys, then
\* `if selected_game_id:` before the comparison.
SelectGameTeam ==
    /\ pick.stage = "listed"
    /\ pick.site = "team"
    /\ LET labels == [i \in 1..Len(pick.games) |-> TeamLabel(pick.games[i])]
           game_options == LabelDict(labels, [i \in 1..Len(pick.games) |-> pick.games[i].id])
           keys == unique(labels)
       IN  \E i \in 1..Len(keys) :
              pick' = [pick EXCEPT !.stage = "selected", !.options = keys,
                                   !.game_options = game_options,
                                   !.selected_game_label = keys[i],
                                   !.selected_game_id = game_options[keys[i]],
                                   !.shown = TruthyId(game_options[keys[i]])]
    /\ UNCHANGED <<coreVars, rnd, side, fin, cmp, radar, sql>>

PNext ==
    \/ SelectGameMain
    \/ SelectGameTeam

PickInit ==
    /\ PInit
    /\ CoreIdle
    /\ RoundsIdle /\ side = NoSide /\ fin = NoFinishes /\ cmp = NoCompare /\ radar = NoRadar
    /\ sql = NoSql

SpecPick == PickInit /\ [][PNext]_vars

(***************************************************************************)
(* Claims about the game selectors                                         *)
(***************************************************************************)
LabelShownFor(row) == IF pick.site = "main" THEN MainLabel(row) ELSE TeamLabel(row)

\* C20: every listed game is reachable through an option of its own, the chosen
\* option yields the id of the game it shows, no two games collapse into one
\* option, and a valid game id never skips the comparison.
C20_SelectionFaithful ==
    pick.stage = "selected" =>
        /\ \A i \in 1..Len(pick.games) :
              \E k \in 1..Len(pick.options) :
                  pick.game_options[pick.options[k]] = pick.games[i].id
        /\ \E i \in 1..Len(pick.games) :
              /\ pick.games[i].id = pick.selected_game_id
              /\ LabelShownFor(pick.games[i]) = pick.selected_game_label
        /\ pick.shown

\* With distinct labels and a non-zero id the selection is faithful.
C20_FaithfulForDistinctLabels ==
    (/\ pick.stage = "selected"
     /\ \A i, j \in 1..Len(pick.games) :
           i # j => LabelShownFor(pick.games[i]) # LabelShownFor(pick.games[j])
     /\ pick.selected_game_id # 0) =>
        /\ \A i \in 1..Len(pick.games) :
              \E k \in 1..Len(pick.options) :
                  pick.game_options[pick.options[k]] = pick.games[i].id
        /\ pick.shown

====
